---- MODULE Spec2Model ----
(***************************************************************************)
(* minigrep (src/src/lib.rs): Config::build, run, search and               *)
(* search_case_insensitive.                                                *)
(*                                                                         *)
(* A string is the sequence of its characters, each a Unicode code point,  *)
(* so that substring search, line splitting and case conversion are        *)
(* computed, not assumed.                                                  *)
(***************************************************************************)
EXTENDS Integers, Sequences, FiniteSets

\* Longest enumerated file content and longest enumerated query.
MaxContentLen == 4
MaxQueryLen == 2

(***************************************************************************)
(* Strings                                                                 *)
(***************************************************************************)
\* '\n' and '\r', the line endings of str::lines.
LF == 10
CR == 13
\* U+03A3, U+03C3, U+03C2 and U+0130, the special cases of str::to_lowercase.
CapitalSigma == 931
SmallSigma == 963
FinalSmallSigma == 962
DottedCapitalI == 304

StringsUpTo(alphabet, n) == UNION {[1..k -> alphabet] : k \in 0..n}

(***************************************************************************)
(* Unicode data behind str::to_lowercase: the tables of core::unicode in   *)
(* the standard library of rustc 1.95.0 (char::UNICODE_VERSION 17.0.0).    *)
(***************************************************************************)
\* Rows <<first, last, step, lower-case of first>>: the characters first,
\* first + step, ..., last go to the lower-case of first plus their distance
\* from first (Unicode 17.0, every character with a one-character lower case
\* other than itself).
LowercaseTable ==
  <<
    <<65, 90, 1, 97>>, <<192, 214, 1, 224>>, <<216, 222, 1, 248>>,
    <<256, 302, 2, 257>>, <<306, 310, 2, 307>>, <<313, 327, 2, 314>>,
    <<330, 374, 2, 331>>, <<376, 376, 1, 255>>, <<377, 381, 2, 378>>,
    <<385, 385, 1, 595>>, <<386, 388, 2, 387>>, <<390, 390, 1, 596>>,
    <<391, 391, 1, 392>>, <<393, 394, 1, 598>>, <<395, 395, 1, 396>>,
    <<398, 398, 1, 477>>, <<399, 399, 1, 601>>, <<400, 400, 1, 603>>,
    <<401, 401, 1, 402>>, <<403, 403, 1, 608>>, <<404, 404, 1, 611>>,
    <<406, 406, 1, 617>>, <<407, 407, 1, 616>>, <<408, 408, 1, 409>>,
    <<412, 412, 1, 623>>, <<413, 413, 1, 626>>, <<415, 415, 1, 629>>,
    <<416, 420, 2, 417>>, <<422, 422, 1, 640>>, <<423, 423, 1, 424>>,
    <<425, 425, 1, 643>>, <<428, 428, 1, 429>>, <<430, 430, 1, 648>>,
    <<431, 431, 1, 432>>, <<433, 434, 1, 650>>, <<435, 437, 2, 436>>,
    <<439, 439, 1, 658>>, <<440, 440, 1, 441>>, <<444, 444, 1, 445>>,
    <<452, 452, 1, 454>>, <<453, 453, 1, 454>>, <<455, 455, 1, 457>>,
    <<456, 456, 1, 457>>, <<458, 458, 1, 460>>, <<459, 475, 2, 460>>,
    <<478, 494, 2, 479>>, <<497, 497, 1, 499>>, <<498, 500, 2, 499>>,
    <<502, 502, 1, 405>>, <<503, 503, 1, 447>>, <<504, 542, 2, 505>>,
    <<544, 544, 1, 414>>, <<546, 562, 2, 547>>, <<570, 570, 1, 11365>>,
    <<571, 571, 1, 572>>, <<573, 573, 1, 410>>, <<574, 574, 1, 11366>>,
    <<577, 577, 1, 578>>, <<579, 579, 1, 384>>, <<580, 580, 1, 649>>,
    <<581, 581, 1, 652>>, <<582, 590, 2, 583>>, <<880, 882, 2, 881>>,
    <<886, 886, 1, 887>>, <<895, 895, 1, 1011>>, <<902, 902, 1, 940>>,
    <<904, 906, 1, 941>>, <<908, 908, 1, 972>>, <<910, 911, 1, 973>>,
    <<913, 929, 1, 945>>, <<931, 939, 1, 963>>, <<975, 975, 1, 983>>,
    <<984, 1006, 2, 985>>, <<1012, 1012, 1, 952>>,
    <<1015, 1015, 1, 1016>>, <<1017, 1017, 1, 1010>>,
    <<1018, 1018, 1, 1019>>, <<1021, 1023, 1, 891>>,
    <<1024, 1039, 1, 1104>>, <<1040, 1071, 1, 1072>>,
    <<1120, 1152, 2, 1121>>, <<1162, 1214, 2, 1163>>,
    <<1216, 1216, 1, 1231>>, <<1217, 1229, 2, 1218>>,
    <<1232, 1326, 2, 1233>>, <<1329, 1366, 1, 1377>>,
    <<4256, 4293, 1, 11520>>, <<4295, 4295, 1, 11559>>,
    <<4301, 4301, 1, 11565>>, <<5024, 5103, 1, 43888>>,
    <<5104, 5109, 1, 5112>>, <<7305, 7305, 1, 7306>>,
    <<7312, 7354, 1, 4304>>, <<7357, 7359, 1, 4349>>,
    <<7680, 7828, 2, 7681>>, <<7838, 7838, 1, 223>>,
    <<7840, 7934, 2, 7841>>, <<7944, 7951, 1, 7936>>,
    <<7960, 7965, 1, 7952>>, <<7976, 7983, 1, 7968>>,
    <<7992, 7999, 1, 7984>>, <<8008, 8013, 1, 8000>>,
    <<8025, 8031, 2, 8017>>, <<8040, 8047, 1, 8032>>,
    <<8072, 8079, 1, 8064>>, <<8088, 8095, 1, 8080>>,
    <<8104, 8111, 1, 8096>>, <<8120, 8121, 1, 8112>>,
    <<8122, 8123, 1, 8048>>, <<8124, 8124, 1, 8115>>,
    <<8136, 8139, 1, 8050>>, <<8140, 8140, 1, 8131>>,
    <<8152, 8153, 1, 8144>>, <<8154, 8155, 1, 8054>>,
    <<8168, 8169, 1, 8160>>, <<8170, 8171, 1, 8058>>,
    <<8172, 8172, 1, 8165>>, <<8184, 8185, 1, 8056>>,
    <<8186, 8187, 1, 8060>>, <<8188, 8188, 1, 8179>>,
    <<8486, 8486, 1, 969>>, <<8490, 8490, 1, 107>>,
    <<8491, 8491, 1, 229>>, <<8498, 8498, 1, 8526>>,
    <<8544, 8559, 1, 8560>>, <<8579, 8579, 1, 8580>>,
    <<9398, 9423, 1, 9424>>, <<11264, 11311, 1, 11312>>,
    <<11360, 11360, 1, 11361>>, <<11362, 11362, 1, 619>>,
    <<11363, 11363, 1, 7549>>, <<11364, 11364, 1, 637>>,
    <<11367, 11371, 2, 11368>>, <<11373, 11373, 1, 593>>,
    <<11374, 11374, 1, 625>>, <<11375, 11375, 1, 592>>,
    <<11376, 11376, 1, 594>>, <<11378, 11378, 1, 11379>>,
    <<11381, 11381, 1, 11382>>, <<11390, 11391, 1, 575>>,
    <<11392, 11490, 2, 11393>>, <<11499, 11501, 2, 11500>>,
    <<11506, 11506, 1, 11507>>, <<42560, 42604, 2, 42561>>,
    <<42624, 42650, 2, 42625>>, <<42786, 42798, 2, 42787>>,
    <<42802, 42862, 2, 42803>>, <<42873, 42875, 2, 42874>>,
    <<42877, 42877, 1, 7545>>, <<42878, 42886, 2, 42879>>,
    <<42891, 42891, 1, 42892>>, <<42893, 42893, 1, 613>>,
    <<42896, 42898, 2, 42897>>, <<42902, 42920, 2, 42903>>,
    <<42922, 42922, 1, 614>>, <<42923, 42923, 1, 604>>,
    <<42924, 42924, 1, 609>>, <<42925, 42925, 1, 620>>,
    <<42926, 42926, 1, 618>>, <<42928, 42928, 1, 670>>,
    <<42929, 42929, 1, 647>>, <<42930, 42930, 1, 669>>,
    <<42931, 42931, 1, 43859>>, <<42932, 42946, 2, 42933>>,
    <<42948, 42948, 1, 42900>>, <<42949, 42949, 1, 642>>,
    <<42950, 42950, 1, 7566>>, <<42951, 42953, 2, 42952>>,
    <<42955, 42955, 1, 612>>, <<42956, 42970, 2, 42957>>,
    <<42972, 42972, 1, 411>>, <<42997, 42997, 1, 42998>>,
    <<65313, 65338, 1, 65345>>, <<66560, 66599, 1, 66600>>,
    <<66736, 66771, 1, 66776>>, <<66928, 66938, 1, 66967>>,
    <<66940, 66954, 1, 66979>>, <<66956, 66962, 1, 66995>>,
    <<66964, 66965, 1, 67003>>, <<68736, 68786, 1, 68800>>,
    <<68944, 68965, 1, 68976>>, <<71840, 71871, 1, 71872>>,
    <<93760, 93791, 1, 93792>>, <<93856, 93880, 1, 93883>>,
    <<125184, 125217, 1, 125218>>
  >>

\* Rows <<first, last>>: the characters with the property Cased (Unicode 17.0).
CasedTable ==
  <<
    <<65, 90>>, <<97, 122>>, <<170, 170>>, <<181, 181>>, <<186, 186>>,
    <<192, 214>>, <<216, 246>>, <<248, 442>>, <<444, 447>>, <<452, 659>>,
    <<662, 696>>, <<704, 705>>, <<736, 740>>, <<837, 837>>, <<880, 883>>,
    <<886, 887>>, <<890, 893>>, <<895, 895>>, <<902, 902>>, <<904, 906>>,
    <<908, 908>>, <<910, 929>>, <<931, 1013>>, <<1015, 1153>>,
    <<1162, 1327>>, <<1329, 1366>>, <<1376, 1416>>, <<4256, 4293>>,
    <<4295, 4295>>, <<4301, 4301>>, <<4304, 4346>>, <<4348, 4351>>,
    <<5024, 5109>>, <<5112, 5117>>, <<7296, 7306>>, <<7312, 7354>>,
    <<7357, 7359>>, <<7424, 7615>>, <<7680, 7957>>, <<7960, 7965>>,
    <<7968, 8005>>, <<8008, 8013>>, <<8016, 8023>>, <<8025, 8025>>,
    <<8027, 8027>>, <<8029, 8029>>, <<8031, 8061>>, <<8064, 8116>>,
    <<8118, 8124>>, <<8126, 8126>>, <<8130, 8132>>, <<8134, 8140>>,
    <<8144, 8147>>, <<8150, 8155>>, <<8160, 8172>>, <<8178, 8180>>,
    <<8182, 8188>>, <<8305, 8305>>, <<8319, 8319>>, <<8336, 8348>>,
    <<8450, 8450>>, <<8455, 8455>>, <<8458, 8467>>, <<8469, 8469>>,
    <<8473, 8477>>, <<8484, 8484>>, <<8486, 8486>>, <<8488, 8488>>,
    <<8490, 8493>>, <<8495, 8500>>, <<8505, 8505>>, <<8508, 8511>>,
    <<8517, 8521>>, <<8526, 8526>>, <<8544, 8575>>, <<8579, 8580>>,
    <<9398, 9449>>, <<11264, 11492>>, <<11499, 11502>>, <<11506, 11507>>,
    <<11520, 11557>>, <<11559, 11559>>, <<11565, 11565>>,
    <<42560, 42605>>, <<42624, 42653>>, <<42786, 42887>>,
    <<42891, 42894>>, <<42896, 42972>>, <<42993, 42998>>,
    <<43000, 43002>>, <<43824, 43866>>, <<43868, 43881>>,
    <<43888, 43967>>, <<64256, 64262>>, <<64275, 64279>>,
    <<65313, 65338>>, <<65345, 65370>>, <<66560, 66639>>,
    <<66736, 66771>>, <<66776, 66811>>, <<66928, 66938>>,
    <<66940, 66954>>, <<66956, 66962>>, <<66964, 66965>>,
    <<66967, 66977>>, <<66979, 66993>>, <<66995, 67001>>,
    <<67003, 67004>>, <<67456, 67456>>, <<67459, 67461>>,
    <<67463, 67504>>, <<67506, 67514>>, <<68736, 68786>>,
    <<68800, 68850>>, <<68944, 68965>>, <<68976, 68997>>,
    <<71840, 71903>>, <<93760, 93823>>, <<93856, 93880>>,
    <<93883, 93907>>, <<119808, 119892>>, <<119894, 119964>>,
    <<119966, 119967>>, <<119970, 119970>>, <<119973, 119974>>,
    <<119977, 119980>>, <<119982, 119993>>, <<119995, 119995>>,
    <<119997, 120003>>, <<120005, 120069>>, <<120071, 120074>>,
    <<120077, 120084>>, <<120086, 120092>>, <<120094, 120121>>,
    <<120123, 120126>>, <<120128, 120132>>, <<120134, 120134>>,
    <<120138, 120144>>, <<120146, 120485>>, <<120488, 120512>>,
    <<120514, 120538>>, <<120540, 120570>>, <<120572, 120596>>,
    <<120598, 120628>>, <<120630, 120654>>, <<120656, 120686>>,
    <<120688, 120712>>, <<120714, 120744>>, <<120746, 120770>>,
    <<120772, 120779>>, <<122624, 122633>>, <<122635, 122654>>,
    <<122661, 122666>>, <<122928, 122989>>, <<125184, 125251>>,
    <<127280, 127305>>, <<127312, 127337>>, <<127344, 127369>>
  >>

\* Rows <<first, last>>: the characters with the property Case_Ignorable
\* (Unicode 17.0).
CaseIgnorableTable ==
  <<
    <<39, 39>>, <<46, 46>>, <<58, 58>>, <<94, 94>>, <<96, 96>>,
    <<168, 168>>, <<173, 173>>, <<175, 175>>, <<180, 180>>, <<183, 184>>,
    <<688, 879>>, <<884, 885>>, <<890, 890>>, <<900, 901>>, <<903, 903>>,
    <<1155, 1161>>, <<1369, 1369>>, <<1375, 1375>>, <<1425, 1469>>,
    <<1471, 1471>>, <<1473, 1474>>, <<1476, 1477>>, <<1479, 1479>>,
    <<1524, 1524>>, <<1536, 1541>>, <<1552, 1562>>, <<1564, 1564>>,
    <<1600, 1600>>, <<1611, 1631>>, <<1648, 1648>>, <<1750, 1757>>,
    <<1759, 1768>>, <<1770, 1773>>, <<1807, 1807>>, <<1809, 1809>>,
    <<1840, 1866>>, <<1958, 1968>>, <<2027, 2037>>, <<2042, 2042>>,
    <<2045, 2045>>, <<2070, 2093>>, <<2137, 2139>>, <<2184, 2184>>,
    <<2192, 2193>>, <<2199, 2207>>, <<2249, 2306>>, <<2362, 2362>>,
    <<2364, 2364>>, <<2369, 2376>>, <<2381, 2381>>, <<2385, 2391>>,
    <<2402, 2403>>, <<2417, 2417>>, <<2433, 2433>>, <<2492, 2492>>,
    <<2497, 2500>>, <<2509, 2509>>, <<2530, 2531>>, <<2558, 2558>>,
    <<2561, 2562>>, <<2620, 2620>>, <<2625, 2626>>, <<2631, 2632>>,
    <<2635, 2637>>, <<2641, 2641>>, <<2672, 2673>>, <<2677, 2677>>,
    <<2689, 2690>>, <<2748, 2748>>, <<2753, 2757>>, <<2759, 2760>>,
    <<2765, 2765>>, <<2786, 2787>>, <<2810, 2815>>, <<2817, 2817>>,
    <<2876, 2876>>, <<2879, 2879>>, <<2881, 2884>>, <<2893, 2893>>,
    <<2901, 2902>>, <<2914, 2915>>, <<2946, 2946>>, <<3008, 3008>>,
    <<3021, 3021>>, <<3072, 3072>>, <<3076, 3076>>, <<3132, 3132>>,
    <<3134, 3136>>, <<3142, 3144>>, <<3146, 3149>>, <<3157, 3158>>,
    <<3170, 3171>>, <<3201, 3201>>, <<3260, 3260>>, <<3263, 3263>>,
    <<3270, 3270>>, <<3276, 3277>>, <<3298, 3299>>, <<3328, 3329>>,
    <<3387, 3388>>, <<3393, 3396>>, <<3405, 3405>>, <<3426, 3427>>,
    <<3457, 3457>>, <<3530, 3530>>, <<3538, 3540>>, <<3542, 3542>>,
    <<3633, 3633>>, <<3636, 3642>>, <<3654, 3662>>, <<3761, 3761>>,
    <<3764, 3772>>, <<3782, 3782>>, <<3784, 3790>>, <<3864, 3865>>,
    <<3893, 3893>>, <<3895, 3895>>, <<3897, 3897>>, <<3953, 3966>>,
    <<3968, 3972>>, <<3974, 3975>>, <<3981, 3991>>, <<3993, 4028>>,
    <<4038, 4038>>, <<4141, 4144>>, <<4146, 4151>>, <<4153, 4154>>,
    <<4157, 4158>>, <<4184, 4185>>, <<4190, 4192>>, <<4209, 4212>>,
    <<4226, 4226>>, <<4229, 4230>>, <<4237, 4237>>, <<4253, 4253>>,
    <<4348, 4348>>, <<4957, 4959>>, <<5906, 5908>>, <<5938, 5939>>,
    <<5970, 5971>>, <<6002, 6003>>, <<6068, 6069>>, <<6071, 6077>>,
    <<6086, 6086>>, <<6089, 6099>>, <<6103, 6103>>, <<6109, 6109>>,
    <<6155, 6159>>, <<6211, 6211>>, <<6277, 6278>>, <<6313, 6313>>,
    <<6432, 6434>>, <<6439, 6440>>, <<6450, 6450>>, <<6457, 6459>>,
    <<6679, 6680>>, <<6683, 6683>>, <<6742, 6742>>, <<6744, 6750>>,
    <<6752, 6752>>, <<6754, 6754>>, <<6757, 6764>>, <<6771, 6780>>,
    <<6783, 6783>>, <<6823, 6823>>, <<6832, 6877>>, <<6880, 6891>>,
    <<6912, 6915>>, <<6964, 6964>>, <<6966, 6970>>, <<6972, 6972>>,
    <<6978, 6978>>, <<7019, 7027>>, <<7040, 7041>>, <<7074, 7077>>,
    <<7080, 7081>>, <<7083, 7085>>, <<7142, 7142>>, <<7144, 7145>>,
    <<7149, 7149>>, <<7151, 7153>>, <<7212, 7219>>, <<7222, 7223>>,
    <<7288, 7293>>, <<7376, 7378>>, <<7380, 7392>>, <<7394, 7400>>,
    <<7405, 7405>>, <<7412, 7412>>, <<7416, 7417>>, <<7468, 7530>>,
    <<7544, 7544>>, <<7579, 7679>>, <<8125, 8125>>, <<8127, 8129>>,
    <<8141, 8143>>, <<8157, 8159>>, <<8173, 8175>>, <<8189, 8190>>,
    <<8203, 8207>>, <<8216, 8217>>, <<8228, 8228>>, <<8231, 8231>>,
    <<8234, 8238>>, <<8288, 8292>>, <<8294, 8303>>, <<8305, 8305>>,
    <<8319, 8319>>, <<8336, 8348>>, <<8400, 8432>>, <<11388, 11389>>,
    <<11503, 11505>>, <<11631, 11631>>, <<11647, 11647>>,
    <<11744, 11775>>, <<11823, 11823>>, <<12293, 12293>>,
    <<12330, 12333>>, <<12337, 12341>>, <<12347, 12347>>,
    <<12441, 12446>>, <<12540, 12542>>, <<40981, 40981>>,
    <<42232, 42237>>, <<42508, 42508>>, <<42607, 42610>>,
    <<42612, 42621>>, <<42623, 42623>>, <<42652, 42655>>,
    <<42736, 42737>>, <<42752, 42785>>, <<42864, 42864>>,
    <<42888, 42890>>, <<42993, 42996>>, <<43000, 43001>>,
    <<43010, 43010>>, <<43014, 43014>>, <<43019, 43019>>,
    <<43045, 43046>>, <<43052, 43052>>, <<43204, 43205>>,
    <<43232, 43249>>, <<43263, 43263>>, <<43302, 43309>>,
    <<43335, 43345>>, <<43392, 43394>>, <<43443, 43443>>,
    <<43446, 43449>>, <<43452, 43453>>, <<43471, 43471>>,
    <<43493, 43494>>, <<43561, 43566>>, <<43569, 43570>>,
    <<43573, 43574>>, <<43587, 43587>>, <<43596, 43596>>,
    <<43632, 43632>>, <<43644, 43644>>, <<43696, 43696>>,
    <<43698, 43700>>, <<43703, 43704>>, <<43710, 43711>>,
    <<43713, 43713>>, <<43741, 43741>>, <<43756, 43757>>,
    <<43763, 43764>>, <<43766, 43766>>, <<43867, 43871>>,
    <<43881, 43883>>, <<44005, 44005>>, <<44008, 44008>>,
    <<44013, 44013>>, <<64286, 64286>>, <<64434, 64450>>,
    <<65024, 65039>>, <<65043, 65043>>, <<65056, 65071>>,
    <<65106, 65106>>, <<65109, 65109>>, <<65279, 65279>>,
    <<65287, 65287>>, <<65294, 65294>>, <<65306, 65306>>,
    <<65342, 65342>>, <<65344, 65344>>, <<65392, 65392>>,
    <<65438, 65439>>, <<65507, 65507>>, <<65529, 65531>>,
    <<66045, 66045>>, <<66272, 66272>>, <<66422, 66426>>,
    <<67456, 67461>>, <<67463, 67504>>, <<67506, 67514>>,
    <<68097, 68099>>, <<68101, 68102>>, <<68108, 68111>>,
    <<68152, 68154>>, <<68159, 68159>>, <<68325, 68326>>,
    <<68900, 68903>>, <<68942, 68942>>, <<68969, 68973>>,
    <<68975, 68975>>, <<69291, 69292>>, <<69317, 69317>>,
    <<69370, 69375>>, <<69446, 69456>>, <<69506, 69509>>,
    <<69633, 69633>>, <<69688, 69702>>, <<69744, 69744>>,
    <<69747, 69748>>, <<69759, 69761>>, <<69811, 69814>>,
    <<69817, 69818>>, <<69821, 69821>>, <<69826, 69826>>,
    <<69837, 69837>>, <<69888, 69890>>, <<69927, 69931>>,
    <<69933, 69940>>, <<70003, 70003>>, <<70016, 70017>>,
    <<70070, 70078>>, <<70089, 70092>>, <<70095, 70095>>,
    <<70191, 70193>>, <<70196, 70196>>, <<70198, 70199>>,
    <<70206, 70206>>, <<70209, 70209>>, <<70367, 70367>>,
    <<70371, 70378>>, <<70400, 70401>>, <<70459, 70460>>,
    <<70464, 70464>>, <<70502, 70508>>, <<70512, 70516>>,
    <<70587, 70592>>, <<70606, 70606>>, <<70608, 70608>>,
    <<70610, 70610>>, <<70625, 70626>>, <<70712, 70719>>,
    <<70722, 70724>>, <<70726, 70726>>, <<70750, 70750>>,
    <<70835, 70840>>, <<70842, 70842>>, <<70847, 70848>>,
    <<70850, 70851>>, <<71090, 71093>>, <<71100, 71101>>,
    <<71103, 71104>>, <<71132, 71133>>, <<71219, 71226>>,
    <<71229, 71229>>, <<71231, 71232>>, <<71339, 71339>>,
    <<71341, 71341>>, <<71344, 71349>>, <<71351, 71351>>,
    <<71453, 71453>>, <<71455, 71455>>, <<71458, 71461>>,
    <<71463, 71467>>, <<71727, 71735>>, <<71737, 71738>>,
    <<71995, 71996>>, <<71998, 71998>>, <<72003, 72003>>,
    <<72148, 72151>>, <<72154, 72155>>, <<72160, 72160>>,
    <<72193, 72202>>, <<72243, 72248>>, <<72251, 72254>>,
    <<72263, 72263>>, <<72273, 72278>>, <<72281, 72283>>,
    <<72330, 72342>>, <<72344, 72345>>, <<72544, 72544>>,
    <<72546, 72548>>, <<72550, 72550>>, <<72752, 72758>>,
    <<72760, 72765>>, <<72767, 72767>>, <<72850, 72871>>,
    <<72874, 72880>>, <<72882, 72883>>, <<72885, 72886>>,
    <<73009, 73014>>, <<73018, 73018>>, <<73020, 73021>>,
    <<73023, 73029>>, <<73031, 73031>>, <<73104, 73105>>,
    <<73109, 73109>>, <<73111, 73111>>, <<73177, 73177>>,
    <<73459, 73460>>, <<73472, 73473>>, <<73526, 73530>>,
    <<73536, 73536>>, <<73538, 73538>>, <<73562, 73562>>,
    <<78896, 78912>>, <<78919, 78933>>, <<90398, 90409>>,
    <<90413, 90415>>, <<92912, 92916>>, <<92976, 92982>>,
    <<92992, 92995>>, <<93504, 93506>>, <<93547, 93548>>,
    <<94031, 94031>>, <<94095, 94111>>, <<94176, 94177>>,
    <<94179, 94180>>, <<94194, 94195>>, <<110576, 110579>>,
    <<110581, 110587>>, <<110589, 110590>>, <<113821, 113822>>,
    <<113824, 113827>>, <<118528, 118573>>, <<118576, 118598>>,
    <<119143, 119145>>, <<119155, 119170>>, <<119173, 119179>>,
    <<119210, 119213>>, <<119362, 119364>>, <<121344, 121398>>,
    <<121403, 121452>>, <<121461, 121461>>, <<121476, 121476>>,
    <<121499, 121503>>, <<121505, 121519>>, <<122880, 122886>>,
    <<122888, 122904>>, <<122907, 122913>>, <<122915, 122916>>,
    <<122918, 122922>>, <<122928, 122989>>, <<123023, 123023>>,
    <<123184, 123197>>, <<123566, 123566>>, <<123628, 123631>>,
    <<124139, 124143>>, <<124398, 124399>>, <<124643, 124643>>,
    <<124646, 124646>>, <<124654, 124655>>, <<124661, 124661>>,
    <<124671, 124671>>, <<125136, 125142>>, <<125252, 125259>>,
    <<127995, 127999>>, <<917505, 917505>>, <<917536, 917631>>,
    <<917760, 917999>>
  >>

InRange(row, c) == row[1] <= c /\ c <= row[2]
OnRow(row, c) == InRange(row, c) /\ (c - row[1]) % row[3] = 0

\* core::unicode::Cased and core::unicode::Case_Ignorable.
Cased(c) == \E k \in DOMAIN CasedTable : InRange(CasedTable[k], c)
Case_Ignorable(c) ==
  \E k \in DOMAIN CaseIgnorableTable : InRange(CaseIgnorableTable[k], c)

\* char::to_lowercase: the lower case of one character, as a string. Only
\* U+0130 has a lower case of two characters.
char_to_lowercase(c) ==
  IF c = DottedCapitalI THEN <<105, 775>>
  ELSE IF \E k \in DOMAIN LowercaseTable : OnRow(LowercaseTable[k], c)
  THEN LET row == LowercaseTable[CHOOSE k \in DOMAIN LowercaseTable :
                                   OnRow(LowercaseTable[k], c)]
       IN  <<row[4] + (c - row[1])>>
  ELSE <<c>>

\* case_ignorable_then_cased: skip the Case_Ignorable characters of s from
\* the left; the next one is Cased.
RECURSIVE case_ignorable_then_cased(_)
case_ignorable_then_cased(s) ==
  IF s = <<>> THEN FALSE
  ELSE IF Case_Ignorable(Head(s)) THEN case_ignorable_then_cased(Tail(s))
  ELSE Cased(Head(s))

Reverse(s) == [k \in 1..Len(s) |-> s[Len(s) + 1 - k]]

\* map_uppercase_sigma: the capital sigma at position k of s goes to the final
\* small sigma when a cased letter precedes it and none follows it (Case_Ignorable
\* characters skipped on both sides), and to the small sigma otherwise.
map_uppercase_sigma(s, k) ==
  IF /\ case_ignorable_then_cased(Reverse(SubSeq(s, 1, k - 1)))
     /\ ~case_ignorable_then_cased(SubSeq(s, k + 1, Len(s)))
  THEN <<FinalSmallSigma>>
  ELSE <<SmallSigma>>

\* str::to_lowercase, as called at lib.rs:80: character by character, the
\* capital sigma by its place in the word.
RECURSIVE to_lowercase_from(_, _)
to_lowercase_from(s, k) ==
  IF k > Len(s) THEN <<>>
  ELSE (IF s[k] = CapitalSigma THEN map_uppercase_sigma(s, k)
        ELSE char_to_lowercase(s[k]))
         \o to_lowercase_from(s, k + 1)

to_lowercase(s) == to_lowercase_from(s, 1)

\* str::starts_with: needle is a prefix of haystack.
starts_with(haystack, needle) ==
  /\ Len(needle) <= Len(haystack)
  /\ SubSeq(haystack, 1, Len(needle)) = needle

\* str::contains, as called at lib.rs:75 and lib.rs:83: scan the haystack from
\* the left for a position where the needle starts.
RECURSIVE contains(_, _)
contains(haystack, needle) ==
  IF starts_with(haystack, needle) THEN TRUE
  ELSE IF haystack = <<>> THEN FALSE
  ELSE contains(Tail(haystack), needle)

\* Position of the first LF of s, or 0.
RECURSIVE find_newline(_, _)
find_newline(s, from) ==
  IF from > Len(s) THEN 0
  ELSE IF s[from] = LF THEN from
  ELSE find_newline(s, from + 1)

\* str::split_inclusive('\n'): the pieces of s, each ending with its LF
\* (the last one may have none); the empty string has no piece.
RECURSIVE split_inclusive(_)
split_inclusive(s) ==
  IF s = <<>> THEN <<>>
  ELSE LET k == find_newline(s, 1)
       IN  IF k = 0 THEN <<s>>
           ELSE <<SubSeq(s, 1, k)>> \o split_inclusive(SubSeq(s, k + 1, Len(s)))

\* The map of str::lines: strip one LF and then one CR from the end of a
\* piece; a piece without LF is kept whole.
strip_line_ending(piece) ==
  IF piece = <<>> \/ piece[Len(piece)] # LF THEN piece
  ELSE LET l == SubSeq(piece, 1, Len(piece) - 1)
       IN  IF l = <<>> \/ l[Len(l)] # CR THEN l
           ELSE SubSeq(l, 1, Len(l) - 1)

\* Variant: split('\n'), which keeps the empty piece after a final newline.
lines_split_keep_last(content) ==
  LET RECURSIVE split(_)
      split(s) ==
        LET k == find_newline(s, 1)
        IN  IF k = 0 THEN <<s>>
            ELSE <<SubSeq(s, 1, k - 1)>> \o split(SubSeq(s, k + 1, Len(s)))
  IN  split(content)

\* str::lines, as called at lib.rs:74 and lib.rs:82.
lines(content) ==
  LET pieces == split_inclusive(content)
  IN  [k \in 1..Len(pieces) |-> strip_line_ending(pieces[k])]

(***************************************************************************)
(* The two searches, lib.rs:72-85.                                         *)
(***************************************************************************)
\* Variant: search that folds case on both sides.
search_ignoring_case(query, content) ==
  LET keep(line) == contains(to_lowercase(line), to_lowercase(query))
  IN  SelectSeq(lines(content), keep)

search(query, content) ==
  LET keep(line) == contains(line, query)
  IN  SelectSeq(lines(content), keep)

\* Variant: the content is lower-cased before it is split, so the lines
\* returned are lower-cased too.
search_lowered_content(query, content) ==
  LET q == to_lowercase(query)
      keep(line) == contains(line, q)
  IN  SelectSeq(lines(to_lowercase(content)), keep)

\* Only the query is lower-cased; each line is tested as it stands.
search_case_insensitive(query, content) ==
  LET q == to_lowercase(query)
      keep(line) == contains(line, q)
  IN  SelectSeq(lines(content), keep)

(***************************************************************************)
(* Results and options.                                                    *)
(***************************************************************************)
Ok(v) == [tag |-> "Ok", val |-> v]
Err(e) == [tag |-> "Err", err |-> e]
Pending == [tag |-> "Pending"]
is_ok(r) == r.tag = "Ok"
None == [some |-> FALSE]
Some(v) == [some |-> TRUE, val |-> v]

\* Iterator::next on an argument sequence: the item and the rest.
next(it) ==
  IF it = <<>> THEN [item |-> None, rest |-> <<>>]
  ELSE [item |-> Some(Head(it)), rest |-> Tail(it)]

(***************************************************************************)
(* The environment: IGNORE_CASE is unset, or set to a byte string.         *)
(***************************************************************************)
\* Values of IGNORE_CASE: empty, "1", the byte 0xFF, the two bytes of U+00E9
\* and the first of them alone.
EnvValues == {<<>>, <<49>>, <<255>>, <<195, 169>>, <<195>>}
Environments == {None} \cup {Some(v) : v \in EnvValues}

\* Byte k of bytes exists and lies in lo..hi.
ByteIn(bytes, k, lo, hi) == k <= Len(bytes) /\ lo <= bytes[k] /\ bytes[k] <= hi
Continuation(bytes, k) == ByteIn(bytes, k, 128, 191)

\* str::from_utf8 succeeds on bytes from position k on: one-byte characters,
\* and two-, three- and four-byte ones that are neither overlong, nor
\* surrogates, nor above U+10FFFF.
RECURSIVE is_utf8_from(_, _)
is_utf8_from(bytes, k) ==
  IF k > Len(bytes) THEN TRUE
  ELSE LET b == bytes[k]
       IN  IF b < 128 THEN is_utf8_from(bytes, k + 1)
           ELSE IF 194 <= b /\ b <= 223
           THEN Continuation(bytes, k + 1) /\ is_utf8_from(bytes, k + 2)
           ELSE IF 224 <= b /\ b <= 239
           THEN /\ ByteIn(bytes, k + 1,
                          IF b = 224 THEN 160 ELSE 128,
                          IF b = 237 THEN 159 ELSE 191)
                /\ Continuation(bytes, k + 2)
                /\ is_utf8_from(bytes, k + 3)
           ELSE IF 240 <= b /\ b <= 244
           THEN /\ ByteIn(bytes, k + 1,
                          IF b = 240 THEN 144 ELSE 128,
                          IF b = 244 THEN 143 ELSE 191)
                /\ Continuation(bytes, k + 2)
                /\ Continuation(bytes, k + 3)
                /\ is_utf8_from(bytes, k + 4)
           ELSE FALSE

\* OsString::into_string inside env::var: the value is valid UTF-8.
is_utf8(bytes) == is_utf8_from(bytes, 1)

\* env::var, as called at lib.rs:37: NotPresent when unset, NotUnicode when
\* the value is not valid Unicode, the value otherwise.
env_var(e) ==
  IF ~e.some THEN Err("NotPresent")
  ELSE IF ~is_utf8(e.val) THEN Err("NotUnicode")
  ELSE Ok(e.val)

(***************************************************************************)
(* Config::build, lib.rs:22-44.                                            *)
(***************************************************************************)
\* Variant: the first args.next() (lib.rs:25) left out.
build_keeping_program_name(a, e) ==
  LET n2 == next(a)
      n3 == next(n2.rest)
  IN  IF ~n2.item.some THEN Err("Didn't get a query string")
      ELSE IF ~n3.item.some THEN Err("Didn't get a file path")
      ELSE Ok([query |-> n2.item.val,
               file_path |-> n3.item.val,
               ignore_case |-> is_ok(env_var(e))])

\* Variant: a missing file path defaults to the empty path.
build_with_default_path(a, e) ==
  LET n1 == next(a)
      n2 == next(n1.rest)
      n3 == next(n2.rest)
  IN  IF ~n2.item.some THEN Err("Didn't get a query string")
      ELSE Ok([query |-> n2.item.val,
               file_path |-> IF n3.item.some THEN n3.item.val ELSE <<>>,
               ignore_case |-> is_ok(env_var(e))])

build(a, e) ==
  LET n1 == next(a)
      n2 == next(n1.rest)
      n3 == next(n2.rest)
  IN  IF ~n2.item.some THEN Err("Didn't get a query string")
      ELSE IF ~n3.item.some THEN Err("Didn't get a file path")
      ELSE Ok([query |-> n2.item.val,
               file_path |-> n3.item.val,
               ignore_case |-> is_ok(env_var(e))])

(***************************************************************************)
(* The file system: a path holds text, bytes that are not text, or a file  *)
(* the process may not read; any other path holds nothing.                 *)
(***************************************************************************)
\* fs::read_to_string, as called at lib.rs:57.
read_to_string(files, path) ==
  IF path \notin DOMAIN files THEN Err("NotFound")
  ELSE IF files[path].kind = "unreadable" THEN Err("PermissionDenied")
  ELSE IF files[path].kind = "not_text" THEN Err("InvalidData")
  ELSE Ok(files[path].data)

(***************************************************************************)
(* Inputs.                                                                 *)
(***************************************************************************)
\* "Rust:\nsafe, fast, productive.\nPick three.\nDuct tape." (lib.rs:94-98)
ScenarioA ==
  <<82, 117, 115, 116, 58, LF,
    115, 97, 102, 101, 44, 32, 102, 97, 115, 116, 44, 32,
    112, 114, 111, 100, 117, 99, 116, 105, 118, 101, 46, LF,
    80, 105, 99, 107, 32, 116, 104, 114, 101, 101, 46, LF,
    68, 117, 99, 116, 32, 116, 97, 112, 101, 46>>
\* "Rust:\nsafe, fast, productive.\nPick three.\nTrust me." (lib.rs:105-109)
ScenarioB ==
  <<82, 117, 115, 116, 58, LF,
    115, 97, 102, 101, 44, 32, 102, 97, 115, 116, 44, 32,
    112, 114, 111, 100, 117, 99, 116, 105, 118, 101, 46, LF,
    80, 105, 99, 107, 32, 116, 104, 114, 101, 101, 46, LF,
    84, 114, 117, 115, 116, 32, 109, 101, 46>>
\* "a\r\nA\r" and "A\r\n\r\n"
CrLfContent == <<97, CR, LF, 65, CR>>
CrLfEnded == <<65, CR, LF, CR, LF>>
\* U+00C9 C O L E, a line break, U+00E9 c o l e; the query U+00C9.
ScenarioEcole == <<201, 67, 79, 76, 69, LF, 233, 99, 111, 108, 101>>
QueryEcole == <<201>>
\* The Greek word "odos" in small letters with the final sigma, in capitals,
\* and in small letters with the non-final sigma; the query is the capitals.
ScenarioSigma ==
  <<959, 948, 959, FinalSmallSigma, LF, 927, 916, 927, CapitalSigma, LF,
    959, 948, 959, SmallSigma>>
QuerySigma == <<927, 916, 927, CapitalSigma>>
\* "i" with U+0307, a line break, U+0130; the query U+0130.
ScenarioDottedI == <<105, 775, LF, DottedCapitalI>>
QueryDottedI == <<DottedCapitalI>>
\* "duct" and "rUsT" (lib.rs:93, lib.rs:104)
QueryDuct == <<100, 117, 99, 116>>
QueryRust == <<114, 85, 115, 84>>
\* "Rust:", "safe, fast, productive." and "Trust me."
LineRust == <<82, 117, 115, 116, 58>>
LineSafe ==
  <<115, 97, 102, 101, 44, 32, 102, 97, 115, 116, 44, 32,
    112, 114, 111, 100, 117, 99, 116, 105, 118, 101, 46>>
LineTrust == <<84, 114, 117, 115, 116, 32, 109, 101, 46>>

Contents ==
  StringsUpTo({97, 65, LF}, MaxContentLen)  \* a, A, line break
    \cup {ScenarioA, ScenarioB, CrLfContent, CrLfEnded,
          ScenarioEcole, ScenarioSigma, ScenarioDottedI}
Queries ==
  StringsUpTo({97, 65}, MaxQueryLen)
    \cup {QueryDuct, QueryRust, QueryEcole, QuerySigma, QueryDottedI}

\* "minigrep", "f" and "x"
ProgramName == <<109, 105, 110, 105, 103, 114, 101, 112>>
FilePath == <<102>>
ExtraArg == <<120>>

ArgVectors ==
  {<<>>, <<ProgramName>>}
    \cup {<<ProgramName, q>> : q \in Queries}
    \cup {<<ProgramName, q, FilePath>> : q \in Queries}
    \cup {<<ProgramName, q, FilePath, ExtraArg>> : q \in Queries}

FileEntries ==
  {[kind |-> "unreadable"], [kind |-> "not_text"]}
    \cup {[kind |-> "text", data |-> c] : c \in Contents}
FileSystems == {<<>>} \cup {[p \in {FilePath} |-> f] : f \in FileEntries}

(***************************************************************************)
(* The program.                                                            *)
(***************************************************************************)
VARIABLES
  args,         \* the argument sequence given to Config::build
  env,          \* IGNORE_CASE in the process environment
  fs,           \* the files
  pc,           \* where the program is
  buildResult,  \* what Config::build returned
  config,       \* the Config given to run
  content,      \* run's content
  called,       \* which search run invoked
  result,       \* run's result
  i,            \* the position of run's for loop in result
  stdout,       \* the lines printed
  runResult,    \* what run returned
  exitCode      \* the process's exit code

vars ==
  <<args, env, fs, pc, buildResult, config, content, called, result, i,
    stdout, runResult, exitCode>>

Init ==
  /\ args \in ArgVectors
  /\ env \in Environments
  /\ fs \in FileSystems
  /\ pc = "main"
  /\ buildResult = Pending
  /\ config = None
  /\ content = None
  /\ called = "none"
  /\ result = <<>>
  /\ i = 1
  /\ stdout = <<>>
  /\ runResult = Pending
  /\ exitCode = -1

\* The caller evaluates Config::build on the process's arguments.
main_build ==
  /\ pc = "main"
  /\ buildResult' = build(args, env)
  /\ pc' = "built"
  /\ UNCHANGED <<args, env, fs, config, content, called, result, i, stdout,
                 runResult, exitCode>>

\* The caller ends the process on a configuration error and otherwise gives
\* the Config to run.
main_unwrap ==
  /\ pc = "built"
  /\ IF is_ok(buildResult)
     THEN /\ config' = Some(buildResult.val)
          /\ pc' = "run"
          /\ UNCHANGED exitCode
     ELSE /\ exitCode' = 1
          /\ pc' = "exited"
          /\ UNCHANGED config
  /\ UNCHANGED <<args, env, fs, buildResult, content, called, result, i,
                 stdout, runResult>>

\* Variant: a failed read gives empty content instead of returning.
run_read_or_empty ==
  /\ pc = "run"
  /\ LET r == read_to_string(fs, config.val.file_path)
     IN  /\ content' = Some(IF is_ok(r) THEN r.val ELSE <<>>)
         /\ pc' = "run_search"
         /\ UNCHANGED runResult
  /\ UNCHANGED <<args, env, fs, buildResult, config, called, result, i,
                 stdout, exitCode>>

\* lib.rs:57: read the file, or return its error.
run_read ==
  /\ pc = "run"
  /\ LET r == read_to_string(fs, config.val.file_path)
     IN  IF is_ok(r)
         THEN /\ content' = Some(r.val)
              /\ pc' = "run_search"
              /\ UNCHANGED runResult
         ELSE /\ runResult' = Err(r.err)
              /\ pc' = "returned"
              /\ UNCHANGED content
  /\ UNCHANGED <<args, env, fs, buildResult, config, called, result, i,
                 stdout, exitCode>>

\* Variant: the two branches of lib.rs:59-63 exchanged.
run_search_swapped ==
  /\ pc = "run_search"
  /\ IF ~config.val.ignore_case
     THEN /\ result' = search_case_insensitive(config.val.query, content.val)
          /\ called' = "search_case_insensitive"
     ELSE /\ result' = search(config.val.query, content.val)
          /\ called' = "search"
  /\ i' = 1
  /\ pc' = "run_print"
  /\ UNCHANGED <<args, env, fs, buildResult, config, content, stdout,
                 runResult, exitCode>>

\* lib.rs:59-63: one of the two searches, by config.ignore_case.
run_search ==
  /\ pc = "run_search"
  /\ IF config.val.ignore_case
     THEN /\ result' = search_case_insensitive(config.val.query, content.val)
          /\ called' = "search_case_insensitive"
     ELSE /\ result' = search(config.val.query, content.val)
          /\ called' = "search"
  /\ i' = 1
  /\ pc' = "run_print"
  /\ UNCHANGED <<args, env, fs, buildResult, config, content, stdout,
                 runResult, exitCode>>

\* lib.rs:65-67: one turn of the loop prints one line.
run_print ==
  /\ pc = "run_print"
  /\ i <= Len(result)
  /\ stdout' = Append(stdout, result[i])
  /\ i' = i + 1
  /\ UNCHANGED <<args, env, fs, pc, buildResult, config, content, called,
                 result, runResult, exitCode>>

\* lib.rs:69: the loop is over, run returns Ok(()).
run_return ==
  /\ pc = "run_print"
  /\ i > Len(result)
  /\ runResult' = Ok(<<>>)
  /\ pc' = "returned"
  /\ UNCHANGED <<args, env, fs, buildResult, config, content, called, result,
                 i, stdout, exitCode>>

\* The caller ends the process: 0 after Ok, non-zero after an error.
main_exit ==
  /\ pc = "returned"
  /\ exitCode' = IF is_ok(runResult) THEN 0 ELSE 1
  /\ pc' = "exited"
  /\ UNCHANGED <<args, env, fs, buildResult, config, content, called, result,
                 i, stdout, runResult>>

Next ==
  \/ main_build
  \/ main_unwrap
  \/ run_read
  \/ run_search
  \/ run_print
  \/ run_return
  \/ main_exit

Spec == Init /\ [][Next]_vars

(***************************************************************************)
(* What the claims speak of, stated without the code's own searches.       *)
(***************************************************************************)
Query == config.val.query
Text == content.val
Searched == called # "none"
Read == config.some /\ content.some

\* q occurs in l as a contiguous run of equal characters.
IsSubstring(q, l) ==
  \E k \in 0..(Len(l) - Len(q)) : \A j \in 1..Len(q) : l[k + j] = q[j]

\* The lines of ls at the positions of S, in increasing order of position.
KthOf(S, k) == CHOOSE p \in S : Cardinality({x \in S : x < p}) = k - 1
Pick(ls, S) == [k \in 1..Cardinality(S) |-> ls[KthOf(S, k)]]

ExactMatches(q, c) ==
  LET ls == lines(c)
  IN  Pick(ls, {p \in 1..Len(ls) : IsSubstring(q, ls[p])})
FoldedMatches(q, c) ==
  LET ls == lines(c)
  IN  Pick(ls, {p \in 1..Len(ls) :
                  IsSubstring(to_lowercase(q), to_lowercase(ls[p]))})

\* e is a slice of c that starts at the start of c or right after a line
\* break and ends at the end of c or right before a line break.
IsLineSlice(e, c) ==
  \E s \in 1..(Len(c) + 1) :
    /\ s + Len(e) - 1 <= Len(c)
    /\ SubSeq(c, s, s + Len(e) - 1) = e
    /\ s = 1 \/ c[s - 1] = LF
    /\ s + Len(e) - 1 = Len(c) \/ c[s + Len(e)] \in {LF, CR}
    /\ \A k \in 1..Len(e) : e[k] # LF

\* r is the lines of c at strictly increasing line positions, each unmodified.
IsStableSubsequence(r, c) ==
  /\ \E S \in SUBSET (1..Len(lines(c))) : r = Pick(lines(c), S)
  /\ \A k \in 1..Len(r) : IsLineSlice(r[k], c)

NewlineCount(c) == Cardinality({k \in 1..Len(c) : c[k] = LF})
EndsWithNewline(c) == c # <<>> /\ c[Len(c)] = LF

\* C1: search_case_insensitive returns exactly the lines whose lower-cased
\* text contains the lower-cased query, in content order and original casing;
\* "rUsT" over Scenario B returns "Rust:" and "Trust me.".
C1_CaseInsensitiveExact ==
  called = "search_case_insensitive" =>
    /\ result = FoldedMatches(Query, Text)
    /\ (Query = QueryRust /\ Text = ScenarioB) => result = <<LineRust, LineTrust>>

\* C2: search returns exactly the lines that contain the query as an
\* exact-case contiguous substring, in content order; "duct" over Scenario A
\* returns only "safe, fast, productive." and not "Duct tape.".
C2_SearchExact ==
  called = "search" =>
    /\ result = ExactMatches(Query, Text)
    /\ \A p \in 1..Len(lines(Text)) :
         (\E k \in 1..Len(result) : result[k] = lines(Text)[p])
           <=> IsSubstring(Query, lines(Text)[p])
    /\ (Query = QueryDuct /\ Text = ScenarioA) => result = <<LineSafe>>
C2_Witness ==
  /\ called = "search"
  /\ Query = QueryDuct
  /\ Text = ScenarioA
  /\ result = <<LineSafe>>
  /\ pc = "returned"

\* C3: every line search returns is returned by search_case_insensitive for
\* the same query and content, whose result is at least as long.
C3_InsensitiveSuperset ==
  Read =>
    LET s == search(Query, Text)
        ci == search_case_insensitive(Query, Text)
    IN  /\ Len(s) <= Len(ci)
        /\ \A k \in 1..Len(s) : \E j \in 1..Len(ci) : ci[j] = s[k]

\* C4: with fewer than two positional arguments Config::build returns the
\* error of the first missing one, no Config exists, and the run reads no
\* file, searches nothing and prints nothing.
C4_MissingArgument ==
  Len(args) < 3 =>
    /\ pc # "main" =>
         buildResult = Err(IF Len(args) < 2 THEN "Didn't get a query string"
                           ELSE "Didn't get a file path")
    /\ config = None
    /\ content = None
    /\ runResult = Pending
    /\ called = "none"
    /\ stdout = <<>>
    /\ pc \in {"main", "built", "exited"}
C4_Witness ==
  /\ Len(args) = 2
  /\ pc = "exited"
  /\ buildResult = Err("Didn't get a file path")
  /\ exitCode = 1

\* C5: when the file cannot be read run returns the read error, having
\* invoked no search and printed no line.
C5_ReadError ==
  /\ (config.some /\ ~is_ok(read_to_string(fs, config.val.file_path))) =>
       /\ called = "none"
       /\ stdout = <<>>
       /\ content = None
       /\ pc \in {"returned", "exited"} =>
            runResult = Err(read_to_string(fs, config.val.file_path).err)
  /\ runResult.tag = "Err" => called = "none" /\ stdout = <<>>
C5_Witness ==
  /\ pc = "returned"
  /\ runResult = Err("InvalidData")
  /\ stdout = <<>>

\* C6: after a successful Config::build, ignore_case is true exactly when
\* IGNORE_CASE is present in the environment, whatever its value.
C6_IgnoreCaseIffPresent ==
  is_ok(buildResult) => (buildResult.val.ignore_case <=> env.some)

\* C7: the result of either search is a stable sub-sequence of the content's
\* lines: unmodified lines at strictly increasing line positions.
C7_StableSubsequence ==
  /\ Searched => IsStableSubsequence(result, Text)
  /\ Read => /\ IsStableSubsequence(search(Query, Text), Text)
             /\ IsStableSubsequence(search_case_insensitive(Query, Text), Text)
C7_Witness ==
  /\ called = "search_case_insensitive"
  /\ Len(lines(Text)) = 2
  /\ Len(result) = 1
  /\ result[1] = lines(Text)[2]
  /\ result[1] # lines(Text)[1]
  /\ \E k \in 1..Len(result[1]) : result[1][k] = 65

\* C8: the empty query matches every line, for both searches; content
\* without lines gives the empty result; content that ends at a newline has
\* no extra empty last line.
C8_EmptyQuery ==
  /\ Read =>
       /\ search(<<>>, Text) = lines(Text)
       /\ search_case_insensitive(<<>>, Text) = lines(Text)
       /\ Len(lines(Text)) =
            NewlineCount(Text)
              + (IF Text # <<>> /\ ~EndsWithNewline(Text) THEN 1 ELSE 0)
  /\ (Searched /\ Query = <<>>) =>
       /\ result = lines(Text)
       /\ Len(result) =
            NewlineCount(Text)
              + (IF Text # <<>> /\ ~EndsWithNewline(Text) THEN 1 ELSE 0)
  /\ (Searched /\ Text = <<>>) => result = <<>>
C8_Witness ==
  /\ Searched
  /\ Query = <<>>
  /\ EndsWithNewline(Text)
  /\ Len(result) = 2
  /\ result[2] = <<>>

\* C9: run prints the result of search_case_insensitive when ignore_case is
\* set and of search otherwise, line by line in the order of the result, and
\* returns Ok only after the last line; nothing else is printed.
C9_PrintsTheResult ==
  /\ ~Searched => stdout = <<>>
  /\ Searched =>
       /\ called = (IF config.val.ignore_case THEN "search_case_insensitive"
                    ELSE "search")
       /\ result = (IF config.val.ignore_case
                    THEN search_case_insensitive(Query, Text)
                    ELSE search(Query, Text))
       /\ i \in 1..(Len(result) + 1)
       /\ stdout = SubSeq(result, 1, i - 1)
  /\ is_ok(runResult) => Searched /\ stdout = result
  /\ (pc \in {"returned", "exited"} /\ content.some) => is_ok(runResult)
C9_Witness ==
  /\ pc = "returned"
  /\ is_ok(runResult)
  /\ config.val.ignore_case
  /\ Len(stdout) = 2
  /\ stdout # search(Query, Text)

\* C10: Config::build drops the first argument, takes query from the second
\* and file_path from the third, unchanged, and ignores any further one.
C10_ArgumentPositions ==
  (Len(args) >= 3 /\ pc # "main") =>
    /\ is_ok(buildResult)
    /\ buildResult.val.query = args[2]
    /\ buildResult.val.file_path = args[3]
    /\ config.some => config.val = buildResult.val
C10_Witness ==
  /\ Len(args) = 4
  /\ pc = "run_print"
  /\ config.val.query = <<97, 65>>
  /\ config.val.file_path = FilePath

====
